---- MODULE Spec2Model ----
(***************************************************************************)
(* Model of pdf_claim_parser.py: money and date normalisation, document    *)
(* classification, the HCFA and EOB extractors and the parse_file entry    *)
(* point.  Texts are TLA+ strings handled character by character; Python's *)
(* re module is modelled by a small backtracking matcher.                  *)
(***************************************************************************)
EXTENDS Integers, Sequences, FiniteSets, TLC

\* text:   the string handed to the operation (document text, or the token
\*         given to parse_money)
\* name:   path.name of the file given to parse_file, "" before the call
\* call:   the entry point that has run, "none" before the call
\* result: the value it returned
\* raised: an exception escaped from it
VARIABLES text, name, call, result, raised

vars == <<text, name, call, result, raised>>

(***************************************************************************)
(* Bounds of the model.                                                    *)
(***************************************************************************)
MaxFragments == 2

MaxIntDigits == 4

MaxFracDigits == 2

(***************************************************************************)
(* Characters and strings.                                                 *)
(***************************************************************************)
Ch(s, i) == SubSeq(s, i, i)

\* str.isspace() characters that occur in the modelled texts
WS == {" ", "\t", "\n"}

NL == {"\n"}

DIGITS == {"0", "1", "2", "3", "4", "5", "6", "7", "8", "9"}

UPPER == {"A", "B", "C", "D", "E", "F", "G", "H", "I", "J", "K", "L", "M",
          "N", "O", "P", "Q", "R", "S", "T", "U", "V", "W", "X", "Y", "Z"}

ToUpperMap ==
    [a |-> "A", b |-> "B", c |-> "C", d |-> "D", e |-> "E", f |-> "F",
     g |-> "G", h |-> "H", i |-> "I", j |-> "J", k |-> "K", l |-> "L",
     m |-> "M", n |-> "N", o |-> "O", p |-> "P", q |-> "Q", r |-> "R",
     s |-> "S", t |-> "T", u |-> "U", v |-> "V", w |-> "W", x |-> "X",
     y |-> "Y", z |-> "Z"]

ToLowerMap ==
    [A |-> "a", B |-> "b", C |-> "c", D |-> "d", E |-> "e", F |-> "f",
     G |-> "g", H |-> "h", I |-> "i", J |-> "j", K |-> "k", L |-> "l",
     M |-> "m", N |-> "n", O |-> "o", P |-> "p", Q |-> "q", R |-> "r",
     S |-> "s", T |-> "t", U |-> "u", V |-> "v", W |-> "w", X |-> "x",
     Y |-> "y", Z |-> "z"]

\* a position when one was found (0 stands for none), else the alternative
OrPos(i, alt) == IF i # 0 THEN i ELSE alt

\* the least i in lo..hi where (s[i] is in cls) = want, 0 when there is none
RECURSIVE FindChar(_, _, _, _, _)
FindChar(s, cls, want, lo, hi) ==
    IF lo > hi THEN 0
    ELSE IF lo = hi THEN (IF (Ch(s, lo) \in cls) = want THEN lo ELSE 0)
    ELSE OrPos(FindChar(s, cls, want, lo, (lo + hi) \div 2),
               FindChar(s, cls, want, (lo + hi) \div 2 + 1, hi))

\* the greatest such i, 0 when there is none
RECURSIVE FindCharLast(_, _, _, _, _)
FindCharLast(s, cls, want, lo, hi) ==
    IF lo > hi THEN 0
    ELSE IF lo = hi THEN (IF (Ch(s, lo) \in cls) = want THEN lo ELSE 0)
    ELSE OrPos(FindCharLast(s, cls, want, (lo + hi) \div 2 + 1, hi),
               FindCharLast(s, cls, want, lo, (lo + hi) \div 2))

\* the least i >= lo where (s[i] is in cls) = want, Len(s) + 1 when there is
\* none
NextChar(s, cls, want, lo) == OrPos(FindChar(s, cls, want, lo, Len(s)), Len(s) + 1)

\* s[lo..hi] with the characters in the domain of map replaced
RECURSIVE MapRange(_, _, _, _)
MapRange(s, map, lo, hi) ==
    IF lo > hi THEN ""
    ELSE IF lo = hi THEN (IF Ch(s, lo) \in DOMAIN map THEN map[Ch(s, lo)] ELSE Ch(s, lo))
    ELSE MapRange(s, map, lo, (lo + hi) \div 2)
         \o MapRange(s, map, (lo + hi) \div 2 + 1, hi)

MapChars(s, map) == MapRange(s, map, 1, Len(s))

\* re.IGNORECASE: both sides are compared after case folding
CaseFold(s) == MapChars(s, ToUpperMap)

\* str.lower()
Lower(s) == MapChars(s, ToLowerMap)

\* str.startswith / str.endswith
StartsWith(s, pre) == Len(s) >= Len(pre) /\ SubSeq(s, 1, Len(pre)) = pre

EndsWith(s, suf) ==
    Len(s) >= Len(suf) /\ SubSeq(s, Len(s) - Len(suf) + 1, Len(s)) = suf

\* the `in` operator on strings
Contains(s, sub) ==
    \E i \in 1..(Len(s) - Len(sub) + 1) : SubSeq(s, i, i + Len(sub) - 1) = sub

\* str.strip()
Strip(s) ==
    SubSeq(s, NextChar(s, WS, FALSE, 1), FindCharLast(s, WS, FALSE, 1, Len(s)))

\* str.splitlines(): lines without their terminator, no trailing empty line
RECURSIVE SplitLinesFrom(_, _), SplitLineTo(_, _, _)
SplitLinesFrom(s, start) ==
    IF start > Len(s) THEN <<>> ELSE SplitLineTo(s, start, NextChar(s, NL, TRUE, start))

\* the line from start to the terminator at e, then the lines after it
SplitLineTo(s, start, e) == <<SubSeq(s, start, e - 1)>> \o SplitLinesFrom(s, e + 1)

SplitLines(s) == SplitLinesFrom(s, 1)

\* str.split(): maximal runs of non-whitespace characters
RECURSIVE SplitFrom(_, _), SplitToken(_, _), SplitTokenTo(_, _, _)
SplitFrom(s, i) == SplitToken(s, NextChar(s, WS, FALSE, i))

\* the token that begins at b, if any, then the tokens after it
SplitToken(s, b) ==
    IF b > Len(s) THEN <<>> ELSE SplitTokenTo(s, b, NextChar(s, WS, TRUE, b))

SplitTokenTo(s, b, e) == <<SubSeq(s, b, e - 1)>> \o SplitFrom(s, e)

Split(s) == SplitFrom(s, 1)

(***************************************************************************)
(* Regular expressions (re.search with re.IGNORECASE).  A pattern is a     *)
(* sequence of elements; the capture group, when there is one, is the last *)
(* element.  Alternatives are tried in Python's backtracking order.  A     *)
(* match is <<start of the last element, end>> (end is the position after  *)
(* the match), <<>> stands for no match.                                   *)
(***************************************************************************)
Lit(s) == [k |-> "lit", s |-> s]

Alt(ss) == [k |-> "alt", ss |-> ss]

OptLit(s) == [k |-> "optlit", s |-> s]

\* greedy repetition of a character class, max = -1 for no upper limit
Rep(cls, neg, min, max) ==
    [k |-> "rep", cls |-> cls, neg |-> neg, min |-> min, max |-> max]

Wb == [k |-> "wb"]

WORDCH == UPPER \cup DIGITS \cup {"_"}

\* the literal s occurs in ft at position p
LitAt(ft, p, s) == p + Len(s) - 1 <= Len(ft) /\ SubSeq(ft, p, p + Len(s) - 1) = s

IsWordAt(ft, p) == p >= 1 /\ p <= Len(ft) /\ Ch(ft, p) \in WORDCH

\* n characters, or max when the repetition has an upper limit below n
Capped(n, max) == IF max # -1 /\ n > max THEN max ELSE n

\* how many characters from position p on the repetition el can take
Run(ft, el, p) == Capped(NextChar(ft, el.cls, el.neg, p) - p, el.max)

\* the match r when there is one, else the next alternative
OrMatch(r, alt) == IF r # <<>> THEN r ELSE alt

\* the match r of the elements from k on, begun at p: the last element
\* records p as the start of the capture
Captured(r, k, n, p) ==
    IF r = <<>> THEN <<>> ELSE IF k = n THEN <<p, r[2]>> ELSE r

RECURSIVE MatchFrom(_, _, _, _), MatchElement(_, _, _, _), TryAlt(_, _, _, _, _)
RECURSIVE TryRep(_, _, _, _, _, _)
\* the elements of pat from the k-th on match ft at position p
MatchFrom(ft, pat, k, p) ==
    IF k > Len(pat) THEN <<p, p>>
    ELSE Captured(MatchElement(ft, pat, k, p), k, Len(pat), p)

MatchElement(ft, pat, k, p) ==
    CASE pat[k].k = "lit" ->
           IF LitAt(ft, p, pat[k].s) THEN MatchFrom(ft, pat, k + 1, p + Len(pat[k].s))
           ELSE <<>>
      [] pat[k].k = "alt" -> TryAlt(ft, pat, k, p, 1)
      [] pat[k].k = "optlit" ->
           OrMatch(IF LitAt(ft, p, pat[k].s)
                   THEN MatchFrom(ft, pat, k + 1, p + Len(pat[k].s))
                   ELSE <<>>,
                   MatchFrom(ft, pat, k + 1, p))
      [] pat[k].k = "rep" -> TryRep(ft, pat, k, p, pat[k].min, Run(ft, pat[k], p))
      [] pat[k].k = "wb" ->
           IF IsWordAt(ft, p - 1) # IsWordAt(ft, p) THEN MatchFrom(ft, pat, k + 1, p)
           ELSE <<>>

\* the alternatives of pat[k] from the a-th on, in order
TryAlt(ft, pat, k, p, a) ==
    IF a > Len(pat[k].ss) THEN <<>>
    ELSE OrMatch(IF LitAt(ft, p, pat[k].ss[a])
                 THEN MatchFrom(ft, pat, k + 1, p + Len(pat[k].ss[a]))
                 ELSE <<>>,
                 TryAlt(ft, pat, k, p, a + 1))

\* a greedy repetition taking between lo and hi characters: the match with
\* the most characters taken that lets the rest of the pattern match
TryRep(ft, pat, k, p, lo, hi) ==
    IF lo > hi THEN <<>>
    ELSE IF lo = hi THEN MatchFrom(ft, pat, k + 1, p + lo)
    ELSE OrMatch(TryRep(ft, pat, k, p, (lo + hi) \div 2 + 1, hi),
                 TryRep(ft, pat, k, p, lo, (lo + hi) \div 2))

\* a match that starts at position i: <<i, start of last element, end>>
StartingAt(i, r) == IF r # <<>> THEN <<i>> \o r ELSE <<>>

\* the leftmost match that starts in lo..hi, <<>> when there is none
RECURSIVE SearchRange(_, _, _, _)
SearchRange(ft, pat, lo, hi) ==
    IF lo > hi THEN <<>>
    ELSE IF lo = hi THEN StartingAt(lo, MatchFrom(ft, pat, 1, lo))
    ELSE OrMatch(SearchRange(ft, pat, lo, (lo + hi) \div 2),
                 SearchRange(ft, pat, (lo + hi) \div 2 + 1, hi))

SearchFrom(ft, pat, i) == SearchRange(ft, pat, i, Len(ft) + 1)

\* re.search(pattern, s, re.IGNORECASE)
Search(pat, s) == SearchFrom(CaseFold(s), pat, 1)

(***************************************************************************)
(* Python values.  Every value carries its type so that None can be told   *)
(* apart from a string, a Decimal or a list.  A Decimal is its sign, its   *)
(* coefficient and its exponent, as in Decimal.as_tuple().                 *)
(***************************************************************************)
None == [t |-> "None"]

Str(s) == [t |-> "str", v |-> s]

Decimal(sign, coef, exp) == [t |-> "Decimal", sign |-> sign, coef |-> coef, exp |-> exp]

List(items) == [t |-> "list", v |-> items]

\* bool(v) for the values the parser tests with `if v:` or `v or ...`
Truthy(v) ==
    CASE v.t = "None" -> FALSE
      [] v.t = "str" -> v.v # ""
      [] v.t = "Decimal" -> v.coef # 0
      [] v.t = "list" -> v.v # <<>>

DigitVal ==
    "0" :> 0 @@ "1" :> 1 @@ "2" :> 2 @@ "3" :> 3 @@ "4" :> 4 @@
    "5" :> 5 @@ "6" :> 6 @@ "7" :> 7 @@ "8" :> 8 @@ "9" :> 9

RECURSIVE DigitsToInt(_, _, _)
DigitsToInt(s, i, acc) ==
    IF i > Len(s) THEN acc ELSE DigitsToInt(s, i + 1, acc * 10 + DigitVal[Ch(s, i)])

AllIn(s, cls) == \A i \in 1..Len(s) : Ch(s, i) \in cls

\* re.sub(r"[^...]", "", s): keep only the characters of cls
RECURSIVE KeepRange(_, _, _, _)
KeepRange(s, cls, lo, hi) ==
    IF lo > hi THEN ""
    ELSE IF lo = hi THEN (IF Ch(s, lo) \in cls THEN Ch(s, lo) ELSE "")
    ELSE KeepRange(s, cls, lo, (lo + hi) \div 2)
         \o KeepRange(s, cls, (lo + hi) \div 2 + 1, hi)

KeepChars(s, cls) == KeepRange(s, cls, 1, Len(s))

\* the first position of c in s, 0 when there is none
IndexOf(s, c) == FindChar(s, {c}, TRUE, 1, Len(s))

\* the Decimal with sign `sign`, integer digits ip and fraction digits fp;
\* the constructor raises InvalidOperation when either holds something else
\* than digits or both are empty, modelled as None
DecimalOfParts(sign, ip, fp) ==
    IF AllIn(ip, DIGITS) /\ AllIn(fp, DIGITS) /\ Len(ip) + Len(fp) >= 1
    THEN Decimal(sign, DigitsToInt(ip \o fp, 1, 0), 0 - Len(fp))
    ELSE None

\* body is split at its first point, found at dot (0 when it has none)
DecimalOfBody(sign, body, dot) ==
    IF dot = 0 THEN DecimalOfParts(sign, body, "")
    ELSE DecimalOfParts(sign, SubSeq(body, 1, dot - 1), SubSeq(body, dot + 1, Len(body)))

DecimalUnsigned(sign, body) == DecimalOfBody(sign, body, IndexOf(body, "."))

\* Decimal(str) for a string of digits, "." and "-": an optional sign, then
\* digits with at most one point and at least one digit
DecimalCtor(s) ==
    IF StartsWith(s, "-") THEN DecimalUnsigned(1, SubSeq(s, 2, Len(s)))
    ELSE DecimalUnsigned(0, s)

\* Decimal.__neg__: the sign is flipped, a zero becomes a positive zero
DecNeg(d) == Decimal(IF d.coef = 0 THEN 0 ELSE 1 - d.sign, d.coef, d.exp)

RECURSIVE Pow10(_)
Pow10(n) == IF n <= 0 THEN 1 ELSE 10 * Pow10(n - 1)

DecSigned(d) == IF d.sign = 1 THEN 0 - d.coef ELSE d.coef

\* the Decimal of the signed coefficient n at exponent e; a zero is negative
\* only when both operands of the sum were
DecOfSigned(n, e, bothNegative) ==
    IF n = 0 THEN Decimal(IF bothNegative THEN 1 ELSE 0, 0, e)
    ELSE IF n < 0 THEN Decimal(1, 0 - n, e)
    ELSE Decimal(0, n, e)

\* the sum of a and b with the coefficients aligned to the exponent e
DecAddAt(a, b, e) ==
    DecOfSigned(DecSigned(a) * Pow10(a.exp - e) + DecSigned(b) * Pow10(b.exp - e),
                e, a.sign = 1 /\ b.sign = 1)

\* Decimal.__add__, exact while the result has at most 28 digits (the default
\* context precision): the exponent is the smaller one
DecAdd(a, b) == DecAddAt(a, b, IF a.exp < b.exp THEN a.exp ELSE b.exp)

\* a character class that lets the thousands comma through
MONEYCH_KeepComma == DIGITS \cup {".", "-", ","}

\* re.sub(r"[^0-9.-]", "", cleaned)
MONEYCH == DIGITS \cup {".", "-"}

\* the except branch of parse_money: Decimal() raised, or the negation
ParseMoneyFailure == None

\* amount = Decimal(cleaned); return -amount if negative else amount, with
\* the except branch for a rejected string
MoneyAmount(negative, amount) ==
    IF amount = None THEN ParseMoneyFailure
    ELSE IF negative THEN DecNeg(amount) ELSE amount

\* cleaned = re.sub(...); amount = Decimal(cleaned)
MoneyCleaned(negative, inner) ==
    MoneyAmount(negative, DecimalCtor(KeepChars(inner, MONEYCH)))

\* negative = cleaned.startswith("(") and cleaned.endswith(")"), and the
\* parentheses removed
MoneyStripped(stripped) ==
    IF StartsWith(stripped, "(") /\ EndsWith(stripped, ")")
    THEN MoneyCleaned(TRUE, SubSeq(stripped, 2, Len(stripped) - 1))
    ELSE MoneyCleaned(FALSE, stripped)

parse_money(value) == IF value = "" THEN None ELSE MoneyStripped(Strip(value))

(***************************************************************************)
(* parse_date.  dateutil's fuzzy parser is modelled on the three shapes    *)
(* the modelled texts contain: MM/DD/YYYY (day first when the first number *)
(* exceeds 12), YYYY-MM-DD, and strings without a digit, which the parser  *)
(* rejects with ParserError.                                               *)
(***************************************************************************)
IsLeap(y) == (y % 4 = 0 /\ y % 100 # 0) \/ y % 400 = 0

DaysIn(y, m) ==
    IF m = 2 THEN (IF IsLeap(y) THEN 29 ELSE 28)
    ELSE IF m \in {4, 6, 9, 11} THEN 30 ELSE 31

ValidDate(y, m, d) == y >= 1 /\ m >= 1 /\ m <= 12 /\ d >= 1 /\ d <= DaysIn(y, m)

\* a/b/y with the numbers ai, bi, yi: month first, day first when that is
\* no date and the first number exceeds 12
SlashDateIso(a, b, y, ai, bi, yi) ==
    IF ValidDate(yi, ai, bi) THEN y \o "-" \o a \o "-" \o b
    ELSE IF ai > 12 /\ ValidDate(yi, bi, ai) THEN y \o "-" \o b \o "-" \o a
    ELSE ""

SlashDate(a, b, y) ==
    SlashDateIso(a, b, y, DigitsToInt(a, 1, 0), DigitsToInt(b, 1, 0),
                 DigitsToInt(y, 1, 0))

\* the stripped string v read as one of the modelled shapes
DateShapeIso(v) ==
    IF Len(v) = 10 /\ Ch(v, 3) = "/" /\ Ch(v, 6) = "/"
       /\ AllIn(SubSeq(v, 1, 2) \o SubSeq(v, 4, 5) \o SubSeq(v, 7, 10), DIGITS)
    THEN SlashDate(SubSeq(v, 1, 2), SubSeq(v, 4, 5), SubSeq(v, 7, 10))
    ELSE IF Len(v) = 10 /\ Ch(v, 5) = "-" /\ Ch(v, 8) = "-"
            /\ AllIn(SubSeq(v, 1, 4) \o SubSeq(v, 6, 7) \o SubSeq(v, 9, 10), DIGITS)
    THEN IF ValidDate(DigitsToInt(SubSeq(v, 1, 4), 1, 0),
                      DigitsToInt(SubSeq(v, 6, 7), 1, 0),
                      DigitsToInt(SubSeq(v, 9, 10), 1, 0))
         THEN v ELSE ""
    ELSE ""

\* dateparser.parse(value, fuzzy=True).date().isoformat(), "" when it raises
DateutilIso(s) == DateShapeIso(Strip(s))

\* the ISO string, None for the except branch
IsoOrNone(iso) == IF iso = "" THEN None ELSE Str(iso)

parse_date(value) == IF value = "" THEN None ELSE IsoOrNone(DateutilIso(value))

(***************************************************************************)
(* Classification.                                                         *)
(***************************************************************************)
WsPlus == Rep(WS, FALSE, 1, -1)

WsStar == Rep(WS, FALSE, 0, -1)

HCFA_PATTERNS ==
    << <<Lit("CMS"), Rep({"-"} \cup WS, FALSE, 0, 1), Lit("1500")>>,
       <<Lit("HCFA"), Rep({"-"} \cup WS, FALSE, 0, 1), Lit("1500")>>,
       <<Lit("HCFA")>>,
       <<Lit("HEALTH"), WsPlus, Lit("INSURANCE"), WsPlus, Lit("CLAIM"), WsPlus,
         Lit("FORM")>>,
       <<Wb, Lit("24J"), Wb>> >>

EOB_PATTERNS ==
    << <<Lit("EXPLANATION"), WsPlus, Lit("OF"), WsPlus, Lit("BENEFITS")>>,
       <<Lit("REMITTANCE"), WsPlus, Lit("ADVICE")>>,
       <<Lit("EXPLANATION"), WsPlus, Lit("OF"), WsPlus, Lit("PAYMENT")>>,
       <<Wb, Lit("EOB"), Wb>>,
       <<Lit("CLAIM"), WsPlus, Lit("SUMMARY")>>,
       <<Lit("PATIENT"), WsPlus, Lit("RESPONSIBILITY")>> >>

\* the for loop over a pattern list: TRUE at the first pattern that matches
RECURSIVE AnyMatchFrom(_, _, _)
AnyMatchFrom(pats, ft, i) ==
    IF i > Len(pats) THEN FALSE
    ELSE IF SearchFrom(ft, pats[i], 1) # <<>> THEN TRUE
    ELSE AnyMatchFrom(pats, ft, i + 1)

\* the two loops in the other order
classify_text_EobFirst(t) ==
    IF AnyMatchFrom(EOB_PATTERNS, CaseFold(t), 1) THEN Str("EOB")
    ELSE IF AnyMatchFrom(HCFA_PATTERNS, CaseFold(t), 1) THEN Str("HCFA")
    ELSE None

classify_text(t) ==
    IF AnyMatchFrom(HCFA_PATTERNS, CaseFold(t), 1) THEN Str("HCFA")
    ELSE IF AnyMatchFrom(EOB_PATTERNS, CaseFold(t), 1) THEN Str("EOB")
    ELSE None

(***************************************************************************)
(* Dictionaries are functions from keys to values; d[k] = v on a dict is   *)
(* DictSet.                                                                *)
(***************************************************************************)
EmptyDict == [k \in {} |-> None]

DictSet(d, key, v) == (key :> v) @@ d

\* dict.get(key): None when the key is absent
DictGet(d, key) == IF key \in DOMAIN d THEN d[key] ELSE None

\* if value: result[key] = value
SetIfTruthy(d, key, v) == IF Truthy(v) THEN DictSet(d, key, v) ELSE d

\* if value: result[key] = parse_date(value)
SetDateIfTruthy(d, key, v) ==
    IF Truthy(v) THEN DictSet(d, key, parse_date(v.v)) ELSE d

\* m.group(1).strip() if m else None, for the match m of a pattern whose
\* last element is the capture group
GroupOrNone(t, m) ==
    IF m = <<>> THEN None ELSE Str(Strip(SubSeq(t, m[2], m[3] - 1)))

FindField(pat, t) == GroupOrNone(t, Search(pat, t))

NotNlStar == Rep(NL, TRUE, 0, -1)

NotNlPlus == Rep(NL, TRUE, 1, -1)

\* dataclass ServiceLine, in field order
SERVICE_LINE_FIELDS == <<"cpt_code", "charge", "patient_responsibility", "insurance_paid">>

ServiceLine(cpt_code, charge, patient_responsibility, insurance_paid) ==
    [cpt_code |-> cpt_code, charge |-> charge,
     patient_responsibility |-> patient_responsibility,
     insurance_paid |-> insurance_paid]

\* {k: v for k, v in asdict(line).items() if v is not None}
AsDictNotNone(line) ==
    [k \in {f \in DOMAIN line : line[f] # None} |-> line[k]]

\* cols[i] with Python's 0-based index raises IndexError when i >= len(cols)
IndexError(cols, i) == i >= Len(cols)

Col(cols, i) == cols[i + 1]

(***************************************************************************)
(* HcfaParser                                                              *)
(***************************************************************************)
HCFA_FIELD_PATTERNS ==
    << <<"patient_name",
         <<Lit("PATIENT'S NAME"), NotNlStar, Lit("\n"), NotNlPlus>> >>,
       <<"insured_id",
         <<Lit("1A."), WsStar, Lit("INSURED'S ID NUMBER"), NotNlStar, Lit("\n"),
           NotNlPlus>> >>,
       <<"patient_address",
         <<Lit("5."), WsStar, Lit("PATIENT ADDRESS"), NotNlStar, Lit("\n"),
           NotNlPlus>> >>,
       <<"federal_tax_id",
         <<Lit("25."), WsStar, Lit("FEDERAL TAX ID NUMBER"), NotNlStar, Lit("\n"),
           NotNlPlus>> >>,
       <<"billing_npi",
         <<Lit("33A."), WsStar, Lit("NPI"), NotNlStar, Lit("\n"), NotNlPlus>> >> >>

HCFA_DOB_PATTERN ==
    <<Lit("3."), WsStar, Lit("DATE OF BIRTH"), NotNlStar, Lit("\n"), NotNlPlus>>

HCFA_HEADER ==
    <<Lit("24A"), NotNlStar, Lit("24B"), NotNlStar, Lit("24D"), NotNlStar,
      Lit("24F"), NotNlStar, Lit("24J")>>

\* charge=parse_money(cols[3])
HCFA_CHARGE_COL == 3

\* the code read from the column before
HCFA_CPT_COL_Shifted == HCFA_CHARGE_COL - 2

\* cpt_code=cols[2]
HCFA_CPT_COL == 2

\* a guard that lets rows of three tokens through
HCFA_MIN_COLS_Three == HCFA_CHARGE_COL

\* a guard that asks for five tokens
HCFA_MIN_COLS_Five == HCFA_CHARGE_COL + 2

\* if len(cols) < 4: continue
HCFA_MIN_COLS == 4

\* the loop over FIELD_PATTERNS.items()
RECURSIVE HcfaFieldLoop(_, _, _)
HcfaFieldLoop(t, res, i) ==
    IF i > Len(HCFA_FIELD_PATTERNS) THEN res
    ELSE HcfaFieldLoop(t,
            SetIfTruthy(res, HCFA_FIELD_PATTERNS[i][1],
                        FindField(HCFA_FIELD_PATTERNS[i][2], t)),
            i + 1)

\* ServiceLine(cpt_code=cols[2], charge=parse_money(cols[3])) as a dict
HcfaServiceLine(cols) ==
    AsDictNotNone(ServiceLine(Str(Col(cols, HCFA_CPT_COL)),
                              parse_money(Col(cols, HCFA_CHARGE_COL)),
                              None, None))

\* the loop with `break` in place of `continue`
RECURSIVE HcfaRowLoop_Break(_, _, _)
HcfaRowLoop_Break(body, i, lines) ==
    IF i > Len(body) THEN [exc |-> FALSE, lines |-> lines]
    ELSE IF Len(Split(body[i])) < HCFA_MIN_COLS THEN [exc |-> FALSE, lines |-> lines]
    ELSE HcfaRowLoop_Break(body, i + 1, Append(lines, HcfaServiceLine(Split(body[i]))))

\* the loop over the lines after the header: [exc |-> an exception escaped,
\* lines |-> the list built so far]
RECURSIVE HcfaRowLoop(_, _, _), HcfaRow(_, _, _, _)
HcfaRowLoop(body, i, lines) ==
    IF i > Len(body) THEN [exc |-> FALSE, lines |-> lines]
    ELSE HcfaRow(body, i, lines, Split(body[i]))

\* the loop body for the line whose tokens are cols
HcfaRow(body, i, lines, cols) ==
    IF Len(cols) < HCFA_MIN_COLS THEN HcfaRowLoop(body, i + 1, lines)
    ELSE IF IndexError(cols, HCFA_CPT_COL) \/ IndexError(cols, HCFA_CHARGE_COL)
    THEN [exc |-> TRUE, lines |-> lines]
    ELSE HcfaRowLoop(body, i + 1, Append(lines, HcfaServiceLine(cols)))

\* the rows after the header match, none when the header is missing
HcfaRowsAfter(t, header) ==
    IF header = <<>> THEN [exc |-> FALSE, lines |-> <<>>]
    ELSE HcfaRowLoop(SplitLines(SubSeq(t, header[3], Len(t))), 1, <<>>)

HcfaParseServiceLines(t) == HcfaRowsAfter(t, Search(HCFA_HEADER, t))

\* result["service_lines"] = ..., with sl the outcome of _parse_service_lines
HcfaResult(res, sl) ==
    [exc |-> sl.exc, val |-> DictSet(res, "service_lines", List(sl.lines))]

\* HcfaParser(text).parse(): [exc |-> raised, val |-> the result dict]
HcfaParse(t) ==
    HcfaResult(SetDateIfTruthy(HcfaFieldLoop(t, DictSet(EmptyDict, "doc_type", Str("HCFA")), 1),
                               "patient_dob", FindField(HCFA_DOB_PATTERN, t)),
               HcfaParseServiceLines(t))

(***************************************************************************)
(* EobParser                                                               *)
(***************************************************************************)
\* the generic date label alone
EOB_DATE_PATTERNS_GenericOnly ==
    << <<Lit("DATE"), WsStar, Rep({":", "-"}, FALSE, 0, 1), WsStar, NotNlPlus>> >>

EOB_DATE_PATTERNS ==
    << <<Alt(<<"STATEMENT", "PAYMENT", "CHECK", "PRINTED", "PROCESSING">>),
         WsStar, Lit("DATE"), WsStar, OptLit("ON"), WsStar,
         Rep({":", "-"}, FALSE, 0, 1), WsStar, NotNlPlus>>,
       <<Lit("DATE"), WsStar, Rep({":", "-"}, FALSE, 0, 1), WsStar, NotNlPlus>> >>

EOB_CLAIM_PATTERN ==
    <<Lit("CLAIM NUMBER"), Rep({":"} \cup WS, FALSE, 0, -1),
      Rep(UPPER \cup DIGITS \cup {"-"}, FALSE, 1, -1)>>

EOB_HEADER == <<Lit("CPT"), WsPlus, Lit("CODE")>>

\* if len(cols) < 4: continue
EOB_MIN_COLS == 4

\* self.text.splitlines()[:10]
INSURANCE_SCAN_LINES == 10

\* the first capture that is not empty
OrNextDate(date, next) == IF Truthy(date) THEN date ELSE next

\* _extract_date: the first pattern, in list order, whose capture is not empty
RECURSIVE ExtractDateFrom(_, _)
ExtractDateFrom(t, i) ==
    IF i > Len(EOB_DATE_PATTERNS) THEN None
    ELSE OrNextDate(FindField(EOB_DATE_PATTERNS[i], t), ExtractDateFrom(t, i + 1))

ExtractDate(t) == ExtractDateFrom(t, 1)

RECURSIVE InsuranceLoop(_, _)
InsuranceLoop(lines, i) ==
    IF i > Len(lines) \/ i > INSURANCE_SCAN_LINES THEN None
    ELSE IF Contains(Lower(lines[i]), "insurance") THEN Str(Strip(lines[i]))
    ELSE InsuranceLoop(lines, i + 1)

ExtractInsuranceName(t) == InsuranceLoop(SplitLines(t), 1)

\* ServiceLine(cpt_code=cols[0], charge=parse_money(cols[1]), ...) as a dict
EobServiceLine(cols) ==
    AsDictNotNone(ServiceLine(Str(Col(cols, 0)),
                              parse_money(Col(cols, 1)),
                              parse_money(Col(cols, 2)),
                              parse_money(Col(cols, 3))))

RECURSIVE EobRowLoop(_, _, _), EobRow(_, _, _, _)
EobRowLoop(body, i, lines) ==
    IF i > Len(body) THEN [exc |-> FALSE, lines |-> lines]
    ELSE EobRow(body, i, lines, Split(body[i]))

\* the loop body for the line whose tokens are cols
EobRow(body, i, lines, cols) ==
    IF Len(cols) < EOB_MIN_COLS THEN EobRowLoop(body, i + 1, lines)
    ELSE IF IndexError(cols, 3) THEN [exc |-> TRUE, lines |-> lines]
    ELSE EobRowLoop(body, i + 1, Append(lines, EobServiceLine(cols)))

\* the rows after the header match, none when the header is missing
EobRowsAfter(t, header) ==
    IF header = <<>> THEN [exc |-> FALSE, lines |-> <<>>]
    ELSE EobRowLoop(SplitLines(SubSeq(t, header[3], Len(t))), 1, <<>>)

EobParseServiceLines(t) == EobRowsAfter(t, Search(EOB_HEADER, t))

\* code points of the characters of the modelled texts, in ascending order
ASCII_ORDER ==
    "\t\n !#$%&'()" \o "*+,-./0123456789:;<=>?@ABCDEFGHIJKLMNOPQRSTUVWXYZ[]^_"
    \o "abcdefghijklmnopqrstuvwxyz{|}~"

Ord(c) == IndexOf(ASCII_ORDER, c)

\* a < b on str: lexicographic by code point
RECURSIVE StrLessFrom(_, _, _)
StrLessFrom(a, b, i) ==
    IF i > Len(b) THEN FALSE
    ELSE IF i > Len(a) THEN TRUE
    ELSE IF Ch(a, i) = Ch(b, i) THEN StrLessFrom(a, b, i + 1)
    ELSE Ord(Ch(a, i)) < Ord(Ch(b, i))

StrLess(a, b) == StrLessFrom(a, b, 1)

\* min(S) for a set of strings
Least(S) == CHOOSE x \in S : \A y \in S \ {x} : StrLess(x, y)

\* sorted(set(xs)) for a set of strings
RECURSIVE SortedSet(_)
SortedSet(S) ==
    IF S = {} THEN <<>> ELSE <<Least(S)>> \o SortedSet(S \ {Least(S)})

\* set(xs)
SetOf(xs) == {xs[i] : i \in 1..Len(xs)}

\* [l.get("cpt_code") for l in service_lines if l.get("cpt_code")]
CptCodeList(lines) ==
    LET F[i \in 0..Len(lines)] ==
            IF i = 0 THEN <<>>
            ELSE IF Truthy(DictGet(lines[i], "cpt_code"))
                 THEN Append(F[i - 1], DictGet(lines[i], "cpt_code").v)
                 ELSE F[i - 1]
    IN F[Len(lines)]

\* v or Decimal(0)
OrZero(v) == IF Truthy(v) THEN v ELSE Decimal(0, 0, 0)

\* sum((l.get(key) or Decimal(0) for l in service_lines), Decimal(0))
RECURSIVE SumLoop(_, _, _, _)
SumLoop(lines, key, i, acc) ==
    IF i > Len(lines) THEN acc
    ELSE SumLoop(lines, key, i + 1, DecAdd(acc, OrZero(DictGet(lines[i], key))))

\* the sum taken over the charge column
SumField_Charge(lines, key) == SumLoop(lines, "charge", 1, Decimal(0, 0, 0))

SumField(lines, key) == SumLoop(lines, key, 1, Decimal(0, 0, 0))

\* the `if service_lines:` block of EobParser.parse
EobAggregates(res, lines) ==
    IF lines = <<>> THEN res
    ELSE DictSet(DictSet(DictSet(res, "cpt_codes",
                                 List(SortedSet(SetOf(CptCodeList(lines))))),
                         "patient_responsibility",
                         SumField(lines, "patient_responsibility")),
                 "insurance_paid", SumField(lines, "insurance_paid"))

\* the result dict once _parse_service_lines has run with outcome sl: an
\* exception leaves before service_lines is stored
EobResult(res, sl) ==
    [exc |-> sl.exc,
     val |-> IF sl.exc THEN res
             ELSE EobAggregates(DictSet(res, "service_lines", List(sl.lines)), sl.lines)]

\* EobParser(text).parse(): [exc |-> raised, val |-> the result dict]
EobParse(t) ==
    EobResult(DictSet(SetIfTruthy(SetDateIfTruthy(DictSet(EmptyDict, "doc_type", Str("EOB")),
                                                  "eob_date", ExtractDate(t)),
                                  "claim_number", FindField(EOB_CLAIM_PATTERN, t)),
                      "insurance_name", ExtractInsuranceName(t)),
              EobParseServiceLines(t))

(***************************************************************************)
(* parse_file, from the extracted text on: extract_text belongs to the PDF *)
(* layer; path_name is path.name.                                          *)
(***************************************************************************)
\* classify_text(text) or "UNKNOWN"
OrUnknown(c) == IF Truthy(c) THEN c ELSE Str("UNKNOWN")

\* result["source_file"] = path.name
WithSourceFile(r, path_name) ==
    [exc |-> r.exc, val |-> DictSet(r.val, "source_file", Str(path_name))]

\* the if / elif / else over doc_type
ParseAs(t, doc_type) ==
    IF doc_type = Str("HCFA") THEN HcfaParse(t)
    ELSE IF doc_type = Str("EOB") THEN EobParse(t)
    ELSE [exc |-> FALSE, val |-> DictSet(EmptyDict, "doc_type", doc_type)]

\* the else branch runs the EOB extractor
ParseFile_ElseEob(t, path_name) ==
    WithSourceFile(IF OrUnknown(classify_text(t)) = Str("HCFA") THEN HcfaParse(t)
                   ELSE EobParse(t),
                   path_name)

ParseFile(t, path_name) ==
    WithSourceFile(ParseAs(t, OrUnknown(classify_text(t))), path_name)

(***************************************************************************)
(* The entry points as actions: one call on the chosen input.              *)
(***************************************************************************)
Return(op, r) ==
    /\ call = "none"
    /\ call' = op
    /\ raised' = r.exc
    /\ result' = IF r.exc THEN None ELSE r.val
    /\ UNCHANGED text

CallParseMoney ==
    Return("parse_money", [exc |-> FALSE, val |-> parse_money(text)]) /\ UNCHANGED name

CallClassifyText ==
    Return("classify_text", [exc |-> FALSE, val |-> classify_text(text)])
    /\ UNCHANGED name

CallHcfaParse == Return("HcfaParser.parse", HcfaParse(text)) /\ UNCHANGED name

CallEobParse == Return("EobParser.parse", EobParse(text)) /\ UNCHANGED name

SourceNames == {"claim.pdf", "scan 2.pdf"}

CallParseFile ==
    \E n \in SourceNames : Return("parse_file", ParseFile(text, n)) /\ name' = n

Start(inputs) ==
    /\ text \in inputs
    /\ name = ""
    /\ call = "none"
    /\ result = None
    /\ raised = FALSE

\* all concatenations of at most n strings of the set frags
RECURSIVE Concats(_, _)
Concats(frags, n) ==
    IF n = 0 THEN {""}
    ELSE LET shorter == Concats(frags, n - 1)
         IN shorter \cup {t \o f : t \in shorter, f \in frags}

(***************************************************************************)
(* parse_money on amounts and on tokens that are no amounts.               *)
(***************************************************************************)
MoneyDigits == {"0", "5"}

RECURSIVE DigitStrs(_)
DigitStrs(n) ==
    IF n = 0 THEN {""} ELSE {d \o r : d \in MoneyDigits, r \in DigitStrs(n - 1)}

\* an amount: digits, then nothing, or a point and at most MaxFracDigits digits
Amounts ==
    {a \in [ip : UNION {DigitStrs(n) : n \in 1..MaxIntDigits},
            pt : {"", "."},
            fp : UNION {DigitStrs(n) : n \in 0..MaxFracDigits}] :
        a.pt = "" => a.fp = ""}

Plain(a) == a.ip \o a.pt \o a.fp

\* the integer part with a comma before every group of three digits
RECURSIVE Commas(_)
Commas(ip) ==
    IF Len(ip) <= 3 THEN ip
    ELSE Commas(SubSeq(ip, 1, Len(ip) - 3)) \o "," \o SubSeq(ip, Len(ip) - 2, Len(ip))

\* the amount with a currency symbol, thousands commas, surrounding whitespace
Decorated(a) ==
    {Plain(a),
     "$" \o Plain(a),
     Commas(a.ip) \o a.pt \o a.fp,
     " " \o Plain(a) \o "\t",
     "\n $" \o Commas(a.ip) \o a.pt \o a.fp \o " "}

\* the amount wrapped in parentheses
Parenthesised(a) ==
    {"(" \o Plain(a) \o ")",
     " ($" \o Commas(a.ip) \o a.pt \o a.fp \o ")\n"}

\* tokens that leave no valid decimal after stripping
NotAmounts ==
    {"", " ", "abc", "N/A", "$", "-", ".", "()", "(abc)", "(", "5.0.5", "5-", "--5",
     "5.5.", "-.", "(-)", "CHARGE"}

MoneyInputs ==
    UNION {Decorated(a) \cup Parenthesised(a) : a \in Amounts} \cup NotAmounts

InitMoney == Start(MoneyInputs)

NextMoney == CallParseMoney

SpecMoney == InitMoney /\ [][NextMoney]_vars

\* the value of a Decimal in units of 10^-MaxFracDigits (its exponent is
\* between -MaxFracDigits and 0)
Units(d) == DecSigned(d) * Pow10(MaxFracDigits + d.exp)

\* the value of an amount, read off its digits, in the same units
AmountUnits(a) ==
    DigitsToInt(a.ip, 1, 0) * Pow10(MaxFracDigits)
    + DigitsToInt(a.fp, 1, 0) * Pow10(MaxFracDigits - Len(a.fp))

\* C8: parse_money gives an amount its decimal value, whatever currency
\* symbol, thousands commas or surrounding whitespace it is written with;
\* the amount in parentheses gives the negated value; a token without a
\* valid decimal gives None; and no input raises.
C8_ParseMoneyNormalises ==
    call = "parse_money" =>
        /\ ~raised
        /\ \A a \in Amounts :
              /\ text \in Decorated(a) =>
                    /\ result = parse_money(Plain(a))
                    /\ result.t = "Decimal"
                    /\ result.exp = 0 - Len(a.fp)
                    /\ Units(result) = AmountUnits(a)
              /\ text \in Parenthesised(a) =>
                    /\ result.t = "Decimal"
                    /\ Units(result) = 0 - AmountUnits(a)
        /\ text \in NotAmounts => result = None

\* a decorated four-digit amount with a fraction and a parenthesised amount
\* have both been parsed
C8_Witness ==
    /\ call = "parse_money"
    /\ text = "\n $5,005.50 "
    /\ result = Decimal(0, 500550, 0 - 2)

(***************************************************************************)
(* classify_text on texts with markers of both families.                   *)
(***************************************************************************)
ClassifyFragments ==
    {"CMS-1500 form ",
     "hcfa 1500\n",
     "Health Insurance\nClaim Form ",
     "box 24J.",
     "x24Jx ",
     "Explanation of  Benefits\n",
     "remittance advice ",
     "EOB ",
     "eobs ",
     "Claim\tSummary\n",
     "Explanation of Payment",
     "invoice 42\n"}

InitClassify == Start(Concats(ClassifyFragments, MaxFragments))

NextClassify == CallClassifyText

SpecClassify == InitClassify /\ [][NextClassify]_vars

\* some pattern of the list matches somewhere in t
AnyPattern(pats, t) == \E i \in 1..Len(pats) : Search(pats[i], t) # <<>>

\* C1: whenever a pattern of the HCFA list matches, classify_text returns
\* HCFA, whether or not a pattern of the EOB list matches too; it returns
\* EOB exactly when no HCFA pattern matches and some EOB pattern does.
C1_HcfaPriority ==
    call = "classify_text" =>
        /\ AnyPattern(HCFA_PATTERNS, text) => result = Str("HCFA")
        /\ result = Str("EOB") <=>
              (~AnyPattern(HCFA_PATTERNS, text) /\ AnyPattern(EOB_PATTERNS, text))
        /\ Contains(CaseFold(text), "HCFA") => result = Str("HCFA")
        /\ Contains(text, "CMS-1500") => result = Str("HCFA")

\* a text with an EOB title before an HCFA marker has been classified HCFA
C1_Witness ==
    /\ call = "classify_text"
    /\ text = "Explanation of  Benefits\nbox 24J."
    /\ AnyPattern(EOB_PATTERNS, text)
    /\ result = Str("HCFA")

(***************************************************************************)
(* parse_file on texts of both families and of neither, with unparseable   *)
(* dates and amounts and with rows too short for a service line.           *)
(***************************************************************************)
FileFragments ==
    {"CMS-1500\n3. DATE OF BIRTH\nunknown\n",
     "24A 24B 24D 24F 24J\n01/02/2024 11 99213 abc 12\nx y\n01/03/2024 11 99214 150.00\n",
     "Explanation of Benefits\nStatement Date: pending\nCLAIM NUMBER ABC123\n",
     "CPT CODE\n99213 n/a (x) 80.00\n\n99214 50.00 5.00 45.00\n",
     "PATIENT'S NAME\nDoe, John\n",
     "Acme Insurance Co\n",
     "invoice 42\n",
     "a b c"}

InitFile == Start(Concats(FileFragments, MaxFragments))

NextFile == CallParseFile

SpecFile == InitFile /\ [][NextFile]_vars

\* the service lines of a result, <<>> when it has none
LinesOf(res) == IF "service_lines" \in DOMAIN res THEN res["service_lines"].v ELSE <<>>

\* line a comes before line b in the service lines of the result
InOrder(res, a, b) ==
    \E i, j \in 1..Len(LinesOf(res)) :
        i < j /\ LinesOf(res)[i] = a /\ LinesOf(res)[j] = b

C6_UnknownRecord ==
    (call = "parse_file"
     /\ ~AnyPattern(HCFA_PATTERNS, text) /\ ~AnyPattern(EOB_PATTERNS, text))
    => /\ ~raised
       /\ DOMAIN result = {"doc_type", "source_file"}
       /\ result["doc_type"] = Str("UNKNOWN")
       /\ result["source_file"] = Str(name)

\* a text with a service table but no marker of either family has been
\* parsed
C6_Witness ==
    /\ call = "parse_file"
    /\ text = "Acme Insurance Co\nCPT CODE\n99213 n/a (x) 80.00\n\n99214 50.00 5.00 45.00\n"
    /\ result["doc_type"] = Str("UNKNOWN")
    /\ name = "scan 2.pdf"

\* the empty text has been parsed
C6_WitnessEmpty == call = "parse_file" /\ text = "" /\ result["doc_type"] = Str("UNKNOWN")

(***************************************************************************)
(* Both extractors on texts with table headers and rows of two to five     *)
(* tokens.                                                                 *)
(***************************************************************************)
LinesFragments ==
    {"24A 24B 24D 24F 24J\n01/02/2024 11 99213 150.00 1234567890\n",
     "CPT CODE\n99214 $1,050.50 (5.25) 80\n",
     "A1 7.5 x\n01/03/2024 11 99215 75.00\n",
     "\n99 1 ",
     "99213 100.00 20.00 80.00 extra\n",
     "total due\n",
     "cpt  code CHARGE PATIENT RESP PAID\n"}

InitLines == Start(Concats(LinesFragments, MaxFragments))

NextLines == CallHcfaParse \/ CallEobParse

SpecLines == InitLines /\ [][NextLines]_vars

\* the lines of the text from the end of the header anchor on, the rest of
\* the header's own line first; <<>> without a header
BodyAfter(header, t) ==
    LET m == Search(header, t)
    IN IF m = <<>> THEN <<>> ELSE SplitLines(SubSeq(t, m[3], Len(t)))

HeaderOf(op) == IF op = "HcfaParser.parse" THEN HCFA_HEADER ELSE EOB_HEADER

IsParse == call \in {"HcfaParser.parse", "EobParser.parse"}

\* the rows of the body with at least n tokens, in order
RowsWith(body, n) ==
    LET Enough(raw) == Len(Split(raw)) >= n
    IN SelectSeq(body, Enough)

\* C3 as stated: an HCFA service line needs a row of at least 5 tokens and
\* an EOB service line a row of at least 4.
C3_Original ==
    IsParse =>
        Len(LinesOf(result))
          = Len(RowsWith(BodyAfter(HeaderOf(call), text),
                         IF call = "HcfaParser.parse" THEN 5 ELSE 4))

\* C3, amended: both extractors emit one service line for every row after
\* the header anchor with at least 4 tokens, and none for a row with fewer.
C3_MinColumns ==
    IsParse =>
        /\ ~raised
        /\ Len(LinesOf(result)) = Len(RowsWith(BodyAfter(HeaderOf(call), text), 4))
        /\ \A i \in 1..Len(LinesOf(result)) :
              \E raw \in {BodyAfter(HeaderOf(call), text)[j] :
                             j \in 1..Len(BodyAfter(HeaderOf(call), text))} :
                  /\ Len(Split(raw)) >= 4
                  /\ LinesOf(result)[i]["cpt_code"]
                       = Str(Split(raw)[IF call = "HcfaParser.parse" THEN 3 ELSE 1])

\* the HCFA extractor has emitted a line for a row of exactly four tokens
\* and none for the row of three tokens before it
C3_Witness ==
    /\ call = "HcfaParser.parse"
    /\ text = "24A 24B 24D 24F 24J\n01/02/2024 11 99213 150.00 1234567890\n"
              \o "A1 7.5 x\n01/03/2024 11 99215 75.00\n"
    /\ Len(LinesOf(result)) = 2
    /\ LinesOf(result)[2]["cpt_code"] = Str("99215")

\* the service line the extractor op builds from a row
LineOfRow(op, raw) ==
    IF op = "HcfaParser.parse"
    THEN HcfaRowLoop(<<raw>>, 1, <<>>).lines
    ELSE EobRowLoop(<<raw>>, 1, <<>>).lines

\* C7: the service lines are the rows after the header anchor that have the
\* extractor's minimum number of tokens, in the order of the text; a short
\* row between them changes neither what is emitted for them nor their
\* order; without a header anchor there are no service lines.
C7_OrderPreserved ==
    IsParse =>
        LET body == BodyAfter(HeaderOf(call), text)
            kept == RowsWith(body, IF call = "HcfaParser.parse" THEN HCFA_MIN_COLS
                                   ELSE EOB_MIN_COLS)
        IN /\ Len(LinesOf(result)) = Len(kept)
           /\ \A i \in 1..Len(kept) : <<LinesOf(result)[i]>> = LineOfRow(call, kept[i])
           /\ Search(HeaderOf(call), text) = <<>> => LinesOf(result) = <<>>

\* the EOB extractor has dropped the row of three tokens between two valid
\* rows
C7_Witness ==
    /\ call = "EobParser.parse"
    /\ text = "CPT CODE\n99214 $1,050.50 (5.25) 80\n"
              \o "A1 7.5 x\n01/03/2024 11 99215 75.00\n"
    /\ Len(LinesOf(result)) = 2
    /\ LinesOf(result)[1]["cpt_code"] = Str("99214")
    /\ LinesOf(result)[2]["cpt_code"] = Str("01/03/2024")

\* C10 as stated: an HCFA service line carries date_of_service,
\* place_of_service, cpt_code, charge and rendering_provider_id.
C10_Original ==
    call = "HcfaParser.parse" =>
        \A i \in 1..Len(LinesOf(result)) :
            {"date_of_service", "place_of_service", "cpt_code", "rendering_provider_id"}
                \subseteq DOMAIN LinesOf(result)[i]

\* the keys of a line: cpt_code, and those of ks whose amount is not None
AmountKeys(line, ks) == DOMAIN line = {"cpt_code"} \cup {k \in ks : DictGet(line, k) # None}

\* C10, amended: an HCFA service line holds the row's third token as
\* cpt_code and the money value of its fourth token as charge, and nothing
\* else; an EOB service line holds the first token as cpt_code and the money
\* values of the second, third and fourth tokens as charge,
\* patient_responsibility and insurance_paid; an amount that is no money
\* value is left out of the line.
C10_ColumnLayout ==
    IsParse =>
        LET body == BodyAfter(HeaderOf(call), text)
            kept == RowsWith(body, 4)
        IN /\ Len(LinesOf(result)) = Len(kept)
           /\ \A i \in 1..Len(LinesOf(result)) :
                 LET line == LinesOf(result)[i]
                     cols == Split(kept[i])
                 IN IF call = "HcfaParser.parse"
                    THEN /\ line["cpt_code"] = Str(cols[3])
                         /\ DictGet(line, "charge") = parse_money(cols[4])
                         /\ AmountKeys(line, {"charge"})
                    ELSE /\ line["cpt_code"] = Str(cols[1])
                         /\ DictGet(line, "charge") = parse_money(cols[2])
                         /\ DictGet(line, "patient_responsibility") = parse_money(cols[3])
                         /\ DictGet(line, "insurance_paid") = parse_money(cols[4])
                         /\ AmountKeys(line, {"charge", "patient_responsibility",
                                              "insurance_paid"})
           /\ (call = "HcfaParser.parse"
               /\ text = "24A 24B 24D 24F 24J\n01/02/2024 11 99213 150.00 1234567890\n")
              => LinesOf(result)
                   = << ("cpt_code" :> Str("99213")
                           @@ "charge" :> Decimal(0, 15000, 0 - 2)) >>
           /\ (call = "EobParser.parse" /\ text = "CPT CODE\n99214 $1,050.50 (5.25) 80\n")
              => LinesOf(result)
                   = << ("cpt_code" :> Str("99214")
                           @@ "charge" :> Decimal(0, 105050, 0 - 2)
                           @@ "patient_responsibility" :> Decimal(1, 525, 0 - 2)
                           @@ "insurance_paid" :> Decimal(0, 80, 0)) >>

\* the HCFA row of the example has been decoded
C10_Witness ==
    /\ call = "HcfaParser.parse"
    /\ text = "24A 24B 24D 24F 24J\n01/02/2024 11 99213 150.00 1234567890\n"
    /\ Len(LinesOf(result)) = 1
    /\ DOMAIN LinesOf(result)[1] = {"cpt_code", "charge"}

(***************************************************************************)
(* The EOB extractor on texts with labelled dates, a claim number, an      *)
(* insurer line and service rows.                                          *)
(***************************************************************************)
EobFragments ==
    {"Check Date: 01/15/2024\n",
     "Payment Date: 02/05/2024\n",
     "Date: 03/10/2024\n",
     "Printed date - 2024-04-20\n",
     "Statement Date: pending\n",
     "Acme Insurance Co\nCLAIM NUMBER ABC123\n",
     "CPT CODE\n99213 100.00 20.00 80.00\n",
     "99214 50.00 (5.25) abc\n99213 1.5 n/a 3\n",
     "A1 7.5 x\n"}

InitEob == Start(Concats(EobFragments, MaxFragments))

NextEob == CallEobParse

SpecEob == InitEob /\ [][NextEob]_vars

\* C2: every key of a parse result holds a value that is not None; a field
\* that is not found, or whose value cannot be normalised, is absent.
C2_NoNullValues ==
    call = "EobParser.parse" => \A k \in DOMAIN result : result[k] # None

\* the value of the amount under key in a service line, 0 when it is absent
LineUnits(line, key) == IF key \in DOMAIN line THEN Units(line[key]) ELSE 0

RECURSIVE SumUnits(_, _, _)
SumUnits(lines, key, n) ==
    IF n = 0 THEN 0 ELSE SumUnits(lines, key, n - 1) + LineUnits(lines[n], key)

TotalIs(res, key) ==
    /\ key \in DOMAIN res
    /\ res[key].t = "Decimal"
    /\ Units(res[key]) = SumUnits(LinesOf(res), key, Len(LinesOf(res)))

CptCodesAre(res) ==
    /\ "cpt_codes" \in DOMAIN res
    /\ LET codes == res["cpt_codes"].v
       IN /\ \A i, j \in 1..Len(codes) : i < j => StrLess(codes[i], codes[j])
          /\ {codes[i] : i \in 1..Len(codes)}
               = {LinesOf(res)[i]["cpt_code"].v : i \in 1..Len(LinesOf(res))}

\* C4 as stated: every result of the EOB extractor holds the two totals and
\* cpt_codes.
C4_Original ==
    call = "EobParser.parse" =>
        /\ TotalIs(result, "patient_responsibility")
        /\ TotalIs(result, "insurance_paid")
        /\ CptCodesAre(result)

\* C4, amended: when the EOB extractor emits at least one service line, the
\* result holds patient_responsibility and insurance_paid equal to the sum
\* of that amount over the service lines, a line without the amount counting
\* 0, and cpt_codes, the ascending duplicate-free list of the lines' codes;
\* when it emits none, the result holds none of the three keys.
C4_Aggregates ==
    call = "EobParser.parse" =>
        IF LinesOf(result) # <<>>
        THEN /\ TotalIs(result, "patient_responsibility")
             /\ TotalIs(result, "insurance_paid")
             /\ CptCodesAre(result)
        ELSE DOMAIN result
               \cap {"patient_responsibility", "insurance_paid", "cpt_codes"} = {}

\* three service lines, two of them with the same code, one with a negative
\* and one with a missing patient responsibility, have been aggregated
C4_Witness ==
    /\ call = "EobParser.parse"
    /\ text = "CPT CODE\n99213 100.00 20.00 80.00\n"
              \o "99214 50.00 (5.25) abc\n99213 1.5 n/a 3\n"
    /\ Len(LinesOf(result)) = 3
    /\ result["cpt_codes"] = List(<<"99213", "99214">>)
    /\ result["patient_responsibility"] = Decimal(0, 1475, 0 - 2)
    /\ result["insurance_paid"] = Decimal(0, 8300, 0 - 2)

\* C9 as stated: a payment date in the text decides eob_date, wherever the
\* other labelled dates stand.
C9_Original ==
    (call = "EobParser.parse" /\ Contains(text, "Payment Date: 02/05/2024\n"))
    => DictGet(result, "eob_date") = Str("2024-02-05")

\* the labelled date lines of the texts, with the date each one gives
LabelledDates ==
    {<<"Check Date: 01/15/2024\n", Str("2024-01-15")>>,
     <<"Payment Date: 02/05/2024\n", Str("2024-02-05")>>,
     <<"Printed date - 2024-04-20\n", Str("2024-04-20")>>,
     <<"Statement Date: pending\n", None>>}

\* the first position of sub in s, Len(s) + 1 when s does not contain it
PosOf(s, sub) ==
    IF Contains(s, sub)
    THEN CHOOSE i \in 1..Len(s) : LitAt(s, i, sub) /\ \A j \in 1..(i - 1) : ~LitAt(s, j, sub)
    ELSE Len(s) + 1

\* C9, amended: eob_date is taken from the labelled date (statement,
\* payment, check, printed or processing date) that stands first in the
\* text, whichever label it has; the generic date label decides only when
\* the text has no labelled date; without any date there is no eob_date.
C9_FirstLabelledDate ==
    call = "EobParser.parse" =>
        /\ \A d \in LabelledDates :
              (/\ Contains(text, d[1])
               /\ \A e \in LabelledDates : PosOf(text, d[1]) <= PosOf(text, e[1]))
              => ("eob_date" \in DOMAIN result /\ result["eob_date"] = d[2])
        /\ ((\A d \in LabelledDates : ~Contains(text, d[1]))
            /\ Contains(text, "Date: 03/10/2024\n"))
           => DictGet(result, "eob_date") = Str("2024-03-10")
        /\ ~Contains(CaseFold(text), "DATE") => "eob_date" \notin DOMAIN result

\* a check date standing before a payment date has decided eob_date
C9_Witness ==
    /\ call = "EobParser.parse"
    /\ text = "Check Date: 01/15/2024\n" \o "Payment Date: 02/05/2024\n"
    /\ result["eob_date"] = Str("2024-01-15")

====
